---- MODULE Spec2Model ----
(***************************************************************************)
(* Finite automaton simulator (DFA / NFA / epsilon-NFA).                   *)
(*                                                                         *)
(* The model follows CS3C__Group1_FinalProjectCodeRevised.py: the          *)
(* transition table is built line by line as parse_transitions does, the   *)
(* automaton is constructed by FiniteAutomaton.__init__ (check_if_dfa,     *)
(* then validate_transitions), and simulate / get_epsilon_closure run as   *)
(* the loops of the source.                                                *)
(***************************************************************************)
EXTENDS Integers, Sequences, FiniteSets, TLC

(***************************************************************************)
(* Universe of the inputs.                                                 *)
(***************************************************************************)
\* self.states: the state labels of the automaton
States == {"q0", "q1"}

\* self.alphabet: one-character symbols
Alphabet == {"0", "1"}

\* the reserved symbol 'ε' ('eps' / 'epsilon' after the parser's conversion)
Epsilon == "eps"

\* keys a row of the transition table can have
Symbols == Alphabet \cup {Epsilon}

\* characters that are not in the alphabet: a letter, and 'ε' itself
Foreign == {"x", Epsilon}

\* characters an input string is made of
InputSymbols == Alphabet \cup Foreign

\* bound: destinations (or empty entries) a transition table holds
MaxLines == 4

\* bound: length of an input string
MaxLen == 2

VARIABLES
    transitions,          \* self.transitions: state -> symbol -> list of states
    start_state,          \* self.start_state
    accept_states,        \* self.accept_states
    is_dfa,               \* self.is_dfa
    missing_transitions,  \* validate_transitions: the violations collected
    pc,                   \* where the program is
    input_string,         \* simulate: its argument
    pos,                  \* simulate: symbols consumed so far
    current_states,       \* simulate: current_states
    invalid_symbols,      \* validate_input_string: invalid_symbols
    result,               \* simulate: the value returned
    states_arg,           \* get_epsilon_closure: its argument
    closure,              \* get_epsilon_closure: closure
    stack,                \* get_epsilon_closure: stack
    iters,                \* get_epsilon_closure: iterations of the while loop
    pushed                \* get_epsilon_closure: times each state was pushed

vars == <<transitions, start_state, accept_states, is_dfa, missing_transitions,
          pc, input_string, pos, current_states, invalid_symbols, result,
          states_arg, closure, stack, iters, pushed>>

automaton == <<transitions, start_state, accept_states, is_dfa, missing_transitions>>
simvars == <<input_string, pos, current_states, invalid_symbols, result>>
closvars == <<states_arg, closure, stack, iters, pushed>>

None == "none"

(***************************************************************************)
(* The transition table: a dict of dicts of lists.                         *)
(***************************************************************************)
Range(seq) == {seq[i] : i \in 1..Len(seq)}

\* transitions = {}
EmptyTable == [s \in {} |-> <<>>]

\* state in self.transitions and symbol in self.transitions[state]
HasEntry(t, state, symbol) ==
    /\ state \in DOMAIN t
    /\ symbol \in DOMAIN t[state]

\* self.transitions[state][symbol] where the key exists, no destination otherwise
Dest(t, state, symbol) == IF HasEntry(t, state, symbol) THEN t[state][symbol] ELSE <<>>

\* transitions[state][symbol] = lst, creating the row and the key when absent
SetEntry(t, state, symbol, lst) ==
    [q \in DOMAIN t \cup {state} |->
        IF q = state
        THEN [b \in (IF state \in DOMAIN t THEN DOMAIN t[state] ELSE {}) \cup {symbol} |->
                 IF b = symbol THEN lst ELSE t[state][b]]
        ELSE t[q]]

\* the body of parse_transitions' loop for the line "state,symbol -> next_state"
AddLine(t, state, symbol, next_state) ==
    SetEntry(t, state, symbol, Append(Dest(t, state, symbol), next_state))

\* what a table costs against MaxLines: its destinations, an empty entry counting one
EntrySize(t, state, symbol) ==
    IF ~HasEntry(t, state, symbol) THEN 0
    ELSE IF Len(t[state][symbol]) = 0 THEN 1 ELSE Len(t[state][symbol])

RECURSIVE SumSizes(_, _)
SumSizes(t, cells) ==
    IF cells = {} THEN 0
    ELSE LET c == CHOOSE x \in cells : TRUE
         IN EntrySize(t, c[1], c[2]) + SumSizes(t, cells \ {c})

TableSize(t) == SumSizes(t, States \X Symbols)

(***************************************************************************)
(* FiniteAutomaton.check_if_dfa                                            *)
(***************************************************************************)
\* mutant: the scan forgets the epsilon test
HasMultipleOnly(t) ==
    \E state \in States :
        /\ state \in DOMAIN t
        /\ \E symbol \in DOMAIN t[state] : Len(t[state][symbol]) > 1

\* mutant: the scan forgets the test for entries longer than one
HasEpsilonOnly(t) ==
    \E state \in States :
        /\ state \in DOMAIN t
        /\ Epsilon \in DOMAIN t[state]

\* the first loop: some state has an epsilon entry or an entry longer than one
HasEpsilonOrMultiple(t) ==
    \E state \in States :
        /\ state \in DOMAIN t
        /\ \/ Epsilon \in DOMAIN t[state]
           \/ \E symbol \in DOMAIN t[state] : Len(t[state][symbol]) > 1

\* mutant: accept states are held to completeness too
AllStatesComplete(t, accept) ==
    \A state \in States :
        /\ state \in DOMAIN t
        /\ \A symbol \in Alphabet : symbol \in DOMAIN t[state]

\* the closing all(...): every non-accepting state has a key for every symbol
AllNonAcceptingComplete(t, accept) ==
    \A state \in States \ accept :
        /\ state \in DOMAIN t
        /\ \A symbol \in Alphabet : symbol \in DOMAIN t[state]

check_if_dfa(t, accept) ==
    IF HasEpsilonOrMultiple(t) THEN FALSE ELSE AllNonAcceptingComplete(t, accept)

(***************************************************************************)
(* FiniteAutomaton.validate_transitions: the violations it collects; it    *)
(* raises TransitionError when there is one.                               *)
(***************************************************************************)
\* mutant: only missing entries are collected, not entries of length other than one
validate_transitions_missing_only(dfa, t, accept) ==
    IF ~dfa THEN {}
    ELSE {<<state, symbol, "missing">> :
              <<state, symbol>> \in {c \in (States \ accept) \X Alphabet :
                                        ~HasEntry(t, c[1], c[2])}}

validate_transitions(dfa, t, accept) ==
    IF ~dfa THEN {}
    ELSE {<<state, symbol, "missing">> :
              <<state, symbol>> \in {c \in (States \ accept) \X Alphabet :
                                        ~HasEntry(t, c[1], c[2])}}
         \cup
         {<<state, symbol, "multiple">> :
              <<state, symbol>> \in {c \in (States \ accept) \X Alphabet :
                                        /\ HasEntry(t, c[1], c[2])
                                        /\ Len(t[c[1]][c[2]]) # 1}}

(***************************************************************************)
(* FiniteAutomatonGUI.simulate_automaton: the automaton type it reports    *)
(***************************************************************************)
automaton_type(dfa, t) ==
    IF dfa THEN "DFA"
    ELSE IF \E state \in States : HasEntry(t, state, Epsilon) THEN "eps-NFA" ELSE "NFA"

(***************************************************************************)
(* FiniteAutomaton.get_epsilon_closure                                     *)
(***************************************************************************)
\* mutant: destinations are pushed without the test "not in closure"
RECURSIVE PushNew_unchecked(_, _, _)
PushNew_unchecked(next_states, cl, st) ==
    IF next_states = <<>> THEN [closure |-> cl, stack |-> st]
    ELSE PushNew_unchecked(Tail(next_states), cl \cup {Head(next_states)},
                           Append(st, Head(next_states)))

\* the for loop over self.transitions[state]['ε']: each destination not yet in
\* the closure is added to it and pushed
RECURSIVE PushNew(_, _, _)
PushNew(next_states, cl, st) ==
    IF next_states = <<>> THEN [closure |-> cl, stack |-> st]
    ELSE LET next_state == Head(next_states)
         IN IF next_state \notin cl
            THEN PushNew(Tail(next_states), cl \cup {next_state}, Append(st, next_state))
            ELSE PushNew(Tail(next_states), cl, st)

\* one iteration of the while loop: pop the last state, follow its epsilon entry
ClosureIteration(t, cl, st) ==
    LET state == st[Len(st)]
        rest == SubSeq(st, 1, Len(st) - 1)
    IN IF HasEntry(t, state, Epsilon)
       THEN PushNew(t[state][Epsilon], cl, rest)
       ELSE [closure |-> cl, stack |-> rest]

RECURSIVE ClosureLoop(_, _, _)
ClosureLoop(t, cl, st) ==
    IF st = <<>> THEN cl
    ELSE LET r == ClosureIteration(t, cl, st)
         IN ClosureLoop(t, r.closure, r.stack)

\* list(states): the orders in which a set can be listed
Orders(S) == {seq \in [1..Cardinality(S) -> S] : Range(seq) = S}

\* mutant: the closure starts empty instead of holding the starting set
InitialClosure_empty(states) == {}

\* closure = set(states)
InitialClosure(states) == states

\* the whole call; the order of list(states) is whichever the set iterates in
get_epsilon_closure(t, states) ==
    ClosureLoop(t, InitialClosure(states), CHOOSE seq \in Orders(states) : TRUE)

(***************************************************************************)
(* FiniteAutomaton.validate_input_string: the invalid symbols it collects; *)
(* it raises InputError when there is one.                                 *)
(***************************************************************************)
\* mutant: the scan stops at the first invalid symbol
validate_input_string_first(input) ==
    LET bad == {i \in 1..Len(input) : input[i] \notin Alphabet}
    IN IF bad = {} THEN {}
       ELSE {input[CHOOSE i \in bad : \A j \in bad : i <= j]}

validate_input_string(input) == {symbol \in Range(input) : symbol \notin Alphabet}

(***************************************************************************)
(* FiniteAutomaton.simulate                                                *)
(***************************************************************************)
\* the inner for loop: the destinations of symbol from the current states
NextStates(t, current, symbol) ==
    UNION {Range(Dest(t, state, symbol)) : state \in {q \in current : HasEntry(t, q, symbol)}}

\* current_states = self.get_epsilon_closure({self.start_state})
InitialStates(t, start) == get_epsilon_closure(t, {start})

\* mutant: every current state must be accepting
Verdict_all(current, accept) == current # {} /\ current \subseteq accept

\* mutant: the verdict forgets accept_states
Verdict_nonempty(current, accept) == current # {}

\* return bool(current_states & self.accept_states)
Verdict(current, accept) == (current \cap accept) # {}

(***************************************************************************)
(* The state machine                                                       *)
(***************************************************************************)
Init ==
    /\ transitions = EmptyTable
    /\ start_state = None
    /\ accept_states = {}
    /\ is_dfa = FALSE
    /\ missing_transitions = {}
    /\ pc = "form"
    /\ input_string = <<>>
    /\ pos = 0
    /\ current_states = {}
    /\ invalid_symbols = {}
    /\ result = None
    /\ states_arg = {}
    /\ closure = {}
    /\ stack = <<>>
    /\ iters = 0
    /\ pushed = [s \in States |-> 0]

\* parse_transitions reads the line "state,symbol -> next_state"
ParseLine ==
    /\ pc = "form"
    /\ TableSize(transitions) < MaxLines
    /\ \E state \in States, symbol \in Symbols, next_state \in States :
          transitions' = AddLine(transitions, state, symbol, next_state)
    /\ UNCHANGED <<start_state, accept_states, is_dfa, missing_transitions, pc,
                   simvars, closvars>>

\* a caller of the constructor hands over an entry with no destination
DeclareEntry ==
    /\ pc = "form"
    /\ TableSize(transitions) < MaxLines
    /\ \E state \in States, symbol \in Symbols :
          /\ ~HasEntry(transitions, state, symbol)
          /\ transitions' = SetEntry(transitions, state, symbol, <<>>)
    /\ UNCHANGED <<start_state, accept_states, is_dfa, missing_transitions, pc,
                   simvars, closvars>>

\* FiniteAutomaton(states, alphabet, transitions, start_state, accept_states)
Construct ==
    /\ pc = "form"
    /\ \E start \in States, accept \in SUBSET States \ {{}} :
          LET dfa == check_if_dfa(transitions, accept)
              missing == validate_transitions(dfa, transitions, accept)
          IN /\ start_state' = start
             /\ accept_states' = accept
             /\ is_dfa' = dfa
             /\ missing_transitions' = missing
             /\ pc' = IF missing # {} THEN "TransitionError" ELSE "ready"
    /\ UNCHANGED <<transitions, simvars, closvars>>

\* simulate(input_string) up to its loop: validation, then the initial closure
SimulateCall ==
    /\ pc = "ready"
    /\ \E n \in 0..MaxLen : \E input \in [1..n -> InputSymbols] :
          LET invalid == validate_input_string(input)
          IN /\ input_string' = input
             /\ invalid_symbols' = invalid
             /\ IF invalid # {}
                THEN /\ pc' = "InputError"
                     /\ UNCHANGED current_states
                ELSE /\ pc' = "simulate"
                     /\ current_states' = InitialStates(transitions, start_state)
    /\ UNCHANGED <<automaton, pos, result, closvars>>

\* one iteration of simulate's loop over the input
SimulateStep ==
    /\ pc = "simulate"
    /\ pos < Len(input_string)
    /\ LET symbol == input_string[pos + 1]
           next_states == get_epsilon_closure(transitions,
                              NextStates(transitions, current_states, symbol))
       IN IF next_states = {}
          THEN /\ result' = FALSE
               /\ pc' = "done"
               /\ UNCHANGED <<current_states, pos>>
          ELSE /\ current_states' = next_states
               /\ pos' = pos + 1
               /\ UNCHANGED <<result, pc>>
    /\ UNCHANGED <<automaton, input_string, invalid_symbols, closvars>>

\* the input is consumed: simulate returns its verdict
SimulateReturn ==
    /\ pc = "simulate"
    /\ pos = Len(input_string)
    /\ result' = Verdict(current_states, accept_states)
    /\ pc' = "done"
    /\ UNCHANGED <<automaton, input_string, pos, current_states, invalid_symbols, closvars>>

\* get_epsilon_closure(states) up to its loop
ClosureCall ==
    /\ pc = "ready"
    /\ \E X \in SUBSET States : \E order \in Orders(X) :
          /\ states_arg' = X
          /\ closure' = InitialClosure(X)
          /\ stack' = order
          /\ pushed' = [s \in States |-> IF s \in X THEN 1 ELSE 0]
    /\ iters' = 0
    /\ pc' = "closure"
    /\ UNCHANGED <<automaton, simvars>>

\* one iteration of get_epsilon_closure's while loop
ClosurePop ==
    /\ pc = "closure"
    /\ stack # <<>>
    /\ LET r == ClosureIteration(transitions, closure, stack)
           appended == SubSeq(r.stack, Len(stack), Len(r.stack))
       IN /\ closure' = r.closure
          /\ stack' = r.stack
          /\ pushed' = [s \in States |->
                           pushed[s] + Cardinality({i \in 1..Len(appended) : appended[i] = s})]
    /\ iters' = iters + 1
    /\ UNCHANGED <<automaton, simvars, pc, states_arg>>

\* the stack is empty: get_epsilon_closure returns closure
ClosureReturn ==
    /\ pc = "closure"
    /\ stack = <<>>
    /\ pc' = "closure_done"
    /\ UNCHANGED <<automaton, simvars, states_arg, closure, stack, iters, pushed>>

Next ==
    \/ ParseLine
    \/ DeclareEntry
    \/ Construct
    \/ SimulateCall
    \/ SimulateStep
    \/ SimulateReturn

Spec == Init /\ [][Next]_vars

NextClosure ==
    \/ ParseLine
    \/ DeclareEntry
    \/ Construct
    \/ ClosureCall
    \/ ClosurePop
    \/ ClosureReturn

SpecClosure == Init /\ [][NextClosure]_vars

(***************************************************************************)
(* Reference definitions the properties are stated with                    *)
(***************************************************************************)
\* the pairs (state, symbol) of the table that have an entry
Entries(t) == {c \in States \X Symbols : HasEntry(t, c[1], c[2])}

\* the states reachable from R by epsilon-transitions alone, as a least fixpoint
RECURSIVE EpsReach(_, _)
EpsReach(t, R) ==
    LET more == R \cup UNION {Range(Dest(t, s, Epsilon)) : s \in R}
    IN IF more = R THEN R ELSE EpsReach(t, more)

\* the reference set of states after the first n symbols of input
RECURSIVE RefStates(_, _, _, _)
RefStates(t, start, input, n) ==
    IF n = 0 THEN EpsReach(t, {start})
    ELSE EpsReach(t, UNION {Range(Dest(t, s, input[n])) : s \in RefStates(t, start, input, n - 1)})

RefAccepts(t, start, accept, input) ==
    (RefStates(t, start, input, Len(input)) \cap accept) # {}

\* the (non-accepting state, symbol) pairs with no transition entry
MissingPairs(t, accept) == {c \in (States \ accept) \X Alphabet : ~HasEntry(t, c[1], c[2])}

HasEpsilonEntry(t) == \E s \in States : HasEntry(t, s, Epsilon)
HasMultiEntry(t) == \E c \in Entries(t) : Len(t[c[1]][c[2]]) > 1

\* every non-accepting state has exactly one destination for every alphabet symbol
NonAcceptingExactlyOne(t, accept) ==
    \A c \in (States \ accept) \X Alphabet :
        HasEntry(t, c[1], c[2]) /\ Len(t[c[1]][c[2]]) = 1

Constructed == pc \notin {"form", "TransitionError"}
ConstructionEnded == pc # "form"

\* the DFA of the scenario: q0,0->q1; q0,1->q0; q1,0->q0; q1,1->q1
ScenarioTransitions ==
    AddLine(AddLine(AddLine(AddLine(EmptyTable, "q0", "0", "q1"),
                            "q0", "1", "q0"), "q1", "0", "q0"), "q1", "1", "q1")

ScenarioDFA ==
    /\ transitions = ScenarioTransitions
    /\ start_state = "q0"
    /\ accept_states = {"q1"}

(***************************************************************************)
(* Construction                                                            *)
(***************************************************************************)
\* C1 (as claimed): once construction has run on a table with no epsilon entry
\* and no multi-destination entry in which some non-accepting state lacks an
\* entry for some alphabet symbol, it has failed with TransitionError, and the
\* error lists exactly the missing (non-accepting state, symbol) pairs.
C1_MissingRaisesTransitionError ==
    (/\ ConstructionEnded
     /\ ~HasEpsilonEntry(transitions)
     /\ ~HasMultiEntry(transitions)
     /\ MissingPairs(transitions, accept_states) # {})
    => /\ pc = "TransitionError"
       /\ {<<m[1], m[2]>> : m \in missing_transitions}
              = MissingPairs(transitions, accept_states)

\* C4: an automaton with a multi-destination entry or an epsilon entry is always
\* constructed, never with TransitionError, however incomplete it is; is_dfa is
\* false; it is reported as eps-NFA when an epsilon entry exists, as NFA otherwise.
C4_NondeterministicNeverRejected ==
    (/\ ConstructionEnded
     /\ (HasMultiEntry(transitions) \/ HasEpsilonEntry(transitions)))
    => /\ pc # "TransitionError"
       /\ missing_transitions = {}
       /\ is_dfa = FALSE
       /\ automaton_type(is_dfa, transitions)
              = IF HasEpsilonEntry(transitions) THEN "eps-NFA" ELSE "NFA"

\* C4 witness: an incomplete automaton with a multi-destination entry and no
\* epsilon entry has been constructed.
C4_Witness ==
    /\ pc = "ready"
    /\ HasMultiEntry(transitions)
    /\ ~HasEpsilonEntry(transitions)
    /\ MissingPairs(transitions, accept_states) # {}

\* C5 (as claimed): when every non-accepting state has exactly one destination
\* for every alphabet symbol and no state has an epsilon entry, construction
\* succeeds with is_dfa true and kind DFA, whatever entries accept states have.
C5_CompleteIsDfa_AsClaimed ==
    (/\ ConstructionEnded
     /\ NonAcceptingExactlyOne(transitions, accept_states)
     /\ ~HasEpsilonEntry(transitions))
    => /\ Constructed
       /\ is_dfa = TRUE
       /\ automaton_type(is_dfa, transitions) = "DFA"

\* C5 (amended): when every non-accepting state has exactly one destination for
\* every alphabet symbol, no state has an epsilon entry and no entry of any
\* state, accepting or not, lists more than one destination, construction
\* succeeds with is_dfa true and kind DFA; accept states may lack entries.
C5_CompleteIsDfa ==
    (/\ ConstructionEnded
     /\ NonAcceptingExactlyOne(transitions, accept_states)
     /\ ~HasEpsilonEntry(transitions)
     /\ ~HasMultiEntry(transitions))
    => /\ Constructed
       /\ is_dfa = TRUE
       /\ automaton_type(is_dfa, transitions) = "DFA"

\* C5 witness: a DFA has been constructed that has a non-accepting state and an
\* accept state lacking an entry for some alphabet symbol.
C5_Witness ==
    /\ pc = "ready"
    /\ is_dfa = TRUE
    /\ accept_states # States
    /\ \E c \in accept_states \X Alphabet : ~HasEntry(transitions, c[1], c[2])

\* C8: a constructed automaton with is_dfa true has, for every non-accepting
\* state and alphabet symbol, an entry with exactly one destination, and no
\* epsilon entry in any state; a candidate that passed the is_dfa scan with an
\* empty entry on a non-accepting state ended in TransitionError.
C8_DfaInvariant ==
    /\ (Constructed /\ is_dfa)
           => /\ NonAcceptingExactlyOne(transitions, accept_states)
              /\ ~HasEpsilonEntry(transitions)
    /\ (/\ ConstructionEnded
        /\ is_dfa
        /\ \E c \in (States \ accept_states) \X Alphabet :
               HasEntry(transitions, c[1], c[2]) /\ Len(transitions[c[1]][c[2]]) = 0)
           => pc = "TransitionError"

\* C8 witness: a candidate with is_dfa true and an empty entry on a non-accepting
\* state was rejected with TransitionError.
C8_Witness ==
    /\ pc = "TransitionError"
    /\ is_dfa
    /\ \E m \in missing_transitions : m[3] = "multiple"

(***************************************************************************)
(* simulate                                                                *)
(***************************************************************************)
\* C2: whenever simulate returns a verdict, the verdict is that of the reference
\* set of states: true iff the set obtained from EpsReach({start_state}) by
\* replacing it, symbol by symbol, with the epsilon-reach of the symbol's
\* destinations intersects accept_states. The early return on an empty set and
\* the empty input are included.
C2_SimulateMatchesReference ==
    pc = "done"
        => result = RefAccepts(transitions, start_state, accept_states, input_string)

\* C2 witness: simulate returned false early, with a symbol still unread, on an
\* automaton that has an epsilon entry.
C2_Witness ==
    /\ pc = "done"
    /\ result = FALSE
    /\ pos + 1 < Len(input_string)
    /\ HasEpsilonEntry(transitions)

\* C3: simulate ends in InputError exactly when the input holds a symbol outside
\* the alphabet, wherever it stands; it then holds no verdict, has followed no
\* transition (the current set was never set up), and its invalid symbols are
\* exactly the input symbols outside the alphabet.
C3_InvalidInputRaises ==
    pc \in {"InputError", "simulate", "done"}
        => LET bad == Range(input_string) \ Alphabet
           IN /\ (bad # {}) <=> (pc = "InputError")
              /\ pc = "InputError"
                     => /\ invalid_symbols = bad
                        /\ result = None
                        /\ pos = 0
                        /\ current_states = {}

\* C3 witness: InputError on an input whose first symbol alone would have been
\* accepted and whose second symbol is outside the alphabet.
C3_Witness ==
    /\ pc = "InputError"
    /\ Len(input_string) = 2
    /\ input_string[1] \in Alphabet
    /\ input_string[2] \notin Alphabet
    /\ RefAccepts(transitions, start_state, accept_states, <<input_string[1]>>)

\* C7 (as claimed): on the scenario DFA simulate("1") is true, simulate("00") is
\* true and simulate("") is false.
C7_Scenario_AsClaimed ==
    (ScenarioDFA /\ pc = "done")
        => /\ input_string = <<"1">> => result = TRUE
           /\ input_string = <<"0", "0">> => result = TRUE
           /\ input_string = <<>> => result = FALSE

\* C7 (amended): on the scenario DFA simulate("1") is false, simulate("00") is
\* false and simulate("") is false.
C7_Scenario ==
    (ScenarioDFA /\ pc = "done")
        => /\ input_string = <<"1">> => result = FALSE
           /\ input_string = <<"0", "0">> => result = FALSE
           /\ input_string = <<>> => result = FALSE

\* C7 witness: simulate("00") has returned on the scenario DFA.
C7_Witness ==
    /\ ScenarioDFA
    /\ is_dfa
    /\ pc = "done"
    /\ input_string = <<"0", "0">>

\* C9: while simulate runs on an automaton with is_dfa true, and when it has
\* returned, current_states holds exactly one state.
C9_DfaSingleton ==
    (pc \in {"simulate", "done"} /\ is_dfa) => Cardinality(current_states) = 1

\* C9 witness: simulate has consumed two symbols on a DFA.
C9_Witness ==
    /\ pc = "simulate"
    /\ is_dfa
    /\ pos = 2

C10_ClosureTerminates ==
    pc \in {"closure", "closure_done"}
        => /\ \A s \in States : pushed[s] <= 1
           /\ iters + Len(stack) <= Cardinality(EpsReach(transitions, states_arg))
           /\ closure \subseteq EpsReach(transitions, states_arg)

\* C10 witness: a call returned on an automaton whose epsilon entries form a
\* cycle through both states.
C10_Witness ==
    /\ pc = "closure_done"
    /\ states_arg = {"q0"}
    /\ "q1" \in Range(Dest(transitions, "q0", Epsilon))
    /\ "q0" \in Range(Dest(transitions, "q1", Epsilon))
    /\ iters = 2

====
